---- MODULE Spec2Model ----
(***************************************************************************)
(* Model of src/data-cleaner.py: the EITI data matching pipeline.          *)
(*                                                                         *)
(* An uploaded table and the remote registry are chosen in Init.  The      *)
(* script of main() is followed stage by stage (pc), the operator's        *)
(* selectbox choices are the Select action, and the "I am done matching"   *)
(* button is the Validate action, which runs validate_matching.            *)
(*                                                                         *)
(* Texts (names, countries) are sequences of one-character strings, so     *)
(* that unidecode and upper are computed character by character.           *)
(* Tables are sequences of rows, a row is a function from column names.    *)
(* A pandas Series is a sequence of entries [label, value]; a label is     *)
(* [int |-> i] (positional RangeIndex) or [str |-> text].                  *)
(***************************************************************************)
EXTENDS Integers, Sequences, FiniteSets, TLC

VARIABLES
    pc,                     \* position in main(): see Stages
    columns,                \* columns of the uploaded CSV
    df,                     \* the uploaded table (main's df)
    remote,                 \* the remote CSV read by load_remote_dataset
    unique_companies,       \* registry of companies of the country
    unique_governments,     \* registry of government entities of the country
    company_matches,        \* inner merge of df with unique_companies
    gov_matches,            \* inner merge of df with unique_governments
    unmatched_companies,    \* rows of df without company match
    unmatched_governments,  \* rows of df without government match
    minted,                 \* number of generate_uuid() calls so far
    out,                    \* the table validate_matching returned
    err,                    \* the exception that ended the run, or NoError
    arg,                    \* the input of a function applied on its own
    res                     \* the results of applying it

vars == <<pc, columns, df, remote, unique_companies, unique_governments,
          company_matches, gov_matches, unmatched_companies,
          unmatched_governments, minted, out, err, arg, res>>

-----------------------------------------------------------------------------
(* Bounds of the model *)

MaxRecords == 2

MaxRemote == 2

MaxTextLen == 2

-----------------------------------------------------------------------------
(* Values *)

NaN == "NaN"

Empty == ""

NoError == "none"

NoPotentialMatch == <<"No potential match">>

RequiredColumns == {"Company", "Government entity", "Country"}

Stages == {"uploaded", "loaded", "preprocessed", "matched", "suggested",
           "reconcile", "done", "error"}

-----------------------------------------------------------------------------
(* Generic sequence helpers *)

RECURSIVE Flatten(_)
Flatten(ss) ==
    IF ss = <<>> THEN <<>> ELSE Head(ss) \o Flatten(Tail(ss))

Range(s) == {s[i] : i \in DOMAIN s}

SeqsUpTo(S, n) == UNION {[1..k -> S] : k \in 0..n}

Max(a, b) == IF a >= b THEN a ELSE b

-----------------------------------------------------------------------------
(* Text: str.upper and unidecode.unidecode *)

LowerLetters == <<"a", "b", "c", "e", "f", "g", "h", "l", "m", "o", "s", "é">>

UpperLetters == <<"A", "B", "C", "E", "F", "G", "H", "L", "M", "O", "S", "É">>

UpperChar(c) ==
    IF \E i \in DOMAIN LowerLetters : LowerLetters[i] = c
    THEN UpperLetters[CHOOSE i \in DOMAIN LowerLetters : LowerLetters[i] = c]
    ELSE c

upper(text) == [i \in DOMAIN text |-> UpperChar(text[i])]

UnidecodeChar(c) ==
    CASE c = "é" -> <<"e">>
      [] c = "É" -> <<"E">>
      [] c = "ß" -> <<"s", "s">>
      [] OTHER   -> <<c>>

unidecode(text) == Flatten([i \in DOMAIN text |-> UnidecodeChar(text[i])])

\* a normalization that forgets .upper()
preprocess_text_noupper(text) == unidecode(text)

preprocess_text(text) == upper(unidecode(text))

-----------------------------------------------------------------------------
(* Inputs *)

UploadRow(c, g, k) ==
    [col \in RequiredColumns |->
        CASE col = "Company" -> c
          [] col = "Government entity" -> g
          [] col = "Country" -> k]

\* the rows an uploaded table is made of: names that differ from the registry's
\* in case and accent only, names the registry lacks, and two countries
UploadPool ==
    { UploadRow(<<"é", "a">>, <<"m", "o">>, <<"g", "h">>),
      UploadRow(<<"E", "b">>, <<"M", "f">>, <<"g", "h">>),
      UploadRow(<<"é", "a">>, <<"M", "f">>, <<"g", "h">>),
      UploadRow(<<"E", "b">>, <<"M", "f">>, <<"m", "l">>),
      UploadRow(<<"é", "a">>, <<"m", "o">>, <<"m", "l">>) }

RemoteRow(cn, ge, idc, idg, k) ==
    [col \in {"company_name", "government_entity", "eiti_id_company",
              "eiti_id_government", "country"} |->
        CASE col = "company_name" -> cn
          [] col = "government_entity" -> ge
          [] col = "eiti_id_company" -> idc
          [] col = "eiti_id_government" -> idg
          [] col = "country" -> k]

\* the rows the remote CSV is made of: two entities with the same names and
\* distinct identifiers, a row sharing a government identifier, another country
RemotePool ==
    { RemoteRow(<<"e", "a">>, <<"m", "o">>, "C1", "G1", <<"G", "H">>),
      RemoteRow(<<"E", "a">>, <<"M", "O">>, "C2", "G2", <<"G", "H">>),
      RemoteRow(<<"e", "c">>, <<"m", "g">>, "C3", "G1", <<"G", "H">>),
      RemoteRow(<<"e", "b">>, <<"m", "f">>, "C4", "G4", <<"M", "L">>) }

ColumnChoices == {RequiredColumns} \cup {RequiredColumns \ {c} : c \in RequiredColumns}

Restrict(row, cols) == [col \in cols |-> row[col]]

-----------------------------------------------------------------------------
(* pandas: tables, merges, Series *)

IntLabel(i) == [int |-> i]

StrLabel(t) == [str |-> t]

Entry(l, v) == [label |-> l, value |-> v]

\* DataFrame.drop_duplicates(subset=[col]): the first row of each value is kept
drop_duplicates(tbl, col) ==
    LET kept == {i \in DOMAIN tbl : \A j \in 1..(i - 1) : tbl[j][col] # tbl[i][col]}
        RECURSIVE Take(_)
        Take(i) == IF i > Len(tbl) THEN <<>>
                   ELSE (IF i \in kept THEN <<tbl[i]>> ELSE <<>>) \o Take(i + 1)
    IN  Take(1)

\* pd.merge(left, right, left_on=lcol, right_on=rcol, how): one row per pair of
\* a left row and a right row with equal keys, in the order of the left rows;
\* with how = "left" a left row without partner is kept once, the right
\* columns being NaN.  The result carries the left columns and `rightcols`.
merge(left, right, lcol, rcol, how, rightcols) ==
    LET Pairs(l) ==
            LET partners == SelectSeq(right, LAMBDA r : r[rcol] = l[lcol])
            IN  IF partners = <<>>
                THEN IF how = "left"
                     THEN <<l @@ [c \in rightcols |-> NaN]>>
                     ELSE <<>>
                ELSE [k \in DOMAIN partners |->
                        l @@ [c \in rightcols |-> partners[k][c]]]
    IN  Flatten([i \in DOMAIN left |-> Pairs(left[i])])

\* df[col] of a table with a RangeIndex: positions 0 .. n-1 are the labels
Column(tbl, col) == [i \in DOMAIN tbl |-> Entry(IntLabel(i - 1), tbl[i][col])]

\* tbl.set_index(icol)[vcol]: the labels are the texts of column icol
set_index(tbl, icol, vcol) ==
    [i \in DOMAIN tbl |-> Entry(StrLabel(tbl[i][icol]), tbl[i][vcol])]

Labels(series) == {series[i].label : i \in DOMAIN series}

HasDuplicateLabels(series) ==
    \E i, j \in DOMAIN series : i # j /\ series[i].label = series[j].label

\* Series.combine_first(other): the two Series are aligned on the union of
\* their labels; at a label the value of self is kept unless it is null, and
\* then the value other has at that label (null when other lacks the label).
combine_first(self, other) ==
    LET At(e) ==
            LET same == SelectSeq(other, LAMBDA o : o.label = e.label)
            IN  IF same = <<>> THEN <<e>>
                ELSE [k \in DOMAIN same |->
                        Entry(e.label, IF e.value # NaN THEN e.value
                                       ELSE same[k].value)]
        onlyOther == SelectSeq(other, LAMBDA o : o.label \notin Labels(self))
    IN  Flatten([i \in DOMAIN self |-> At(self[i])]) \o onlyOther

\* df[col] = series: the Series is reindexed to the labels of df, a label
\* the Series lacks gives NaN; pandas raises ValueError when the Series has
\* duplicate labels (cannot reindex on an axis with duplicate labels).
CanAssign(series) == ~HasDuplicateLabels(series)

AssignColumn(tbl, col, series) ==
    LET ValueAt(l) ==
            IF l \in Labels(series)
            THEN (CHOOSE e \in Range(series) : e.label = l).value
            ELSE NaN
    IN  [i \in DOMAIN tbl |->
            [c \in DOMAIN tbl[i] |->
                IF c = col THEN ValueAt(IntLabel(i - 1)) ELSE tbl[i][c]]]

-----------------------------------------------------------------------------
(* fuzzywuzzy: process.extractOne *)

\* similarity of two texts in 0..100: twice the length of their longest
\* common subsequence over the sum of the lengths
RECURSIVE Lcs(_, _)
Lcs(a, b) ==
    IF a = <<>> \/ b = <<>> THEN 0
    ELSE IF Head(a) = Head(b) THEN 1 + Lcs(Tail(a), Tail(b))
    ELSE Max(Lcs(Tail(a), b), Lcs(a, Tail(b)))

\* the scorer: 0 for an empty text, else 100 * 2M/T rounded to an integer
ratio(a, b) ==
    IF a = <<>> \/ b = <<>> THEN 0
    ELSE (400 * Lcs(a, b) + Len(a) + Len(b)) \div (2 * (Len(a) + Len(b)))

None == <<>>

\* an extractOne called with score_cutoff=50: no result under that score
extractOne_cutoff(query, choices) ==
    LET kept == SelectSeq(choices, LAMBDA c : ratio(query, c) >= 50)
    IN  IF kept = <<>> THEN None
        ELSE LET best == CHOOSE i \in DOMAIN kept :
                            /\ \A j \in DOMAIN kept :
                                  ratio(query, kept[j]) <= ratio(query, kept[i])
                            /\ \A j \in 1..(i - 1) :
                                  ratio(query, kept[j]) < ratio(query, kept[i])
             IN  <<kept[best], ratio(query, kept[best])>>

\* extractOne(query, choices): None for no choice, else <<choice, score>> of
\* the first choice whose score is the maximum (Python's max keeps the first)
extractOne(query, choices) ==
    IF choices = <<>> THEN None
    ELSE LET best == CHOOSE i \in DOMAIN choices :
                        /\ \A j \in DOMAIN choices :
                              ratio(query, choices[j]) <= ratio(query, choices[i])
                        /\ \A j \in 1..(i - 1) :
                              ratio(query, choices[j]) < ratio(query, choices[i])
         IN  <<choices[best], ratio(query, choices[best])>>

-----------------------------------------------------------------------------
(* The functions of data-cleaner.py *)

\* load_remote_dataset(country): the rows of the country, one per identifier
load_remote_dataset(country) ==
    LET filtered_df == SelectSeq(remote, LAMBDA r : upper(r["country"]) = upper(country))
    IN  [unique_companies   |-> drop_duplicates(filtered_df, "eiti_id_company"),
         unique_governments |-> drop_duplicates(filtered_df, "eiti_id_government")]

\* generate_uuid(): the n-th identifier drawn; uuid4 values are taken to be
\* pairwise distinct and distinct from the identifiers of the registry
generate_uuid(n) == "uuid-" \o ToString(n)

\* normalizing a column and then keeping one row per normalized text
ApplyText_dedup(tbl, col) ==
    drop_duplicates(
        [i \in DOMAIN tbl |->
            [c \in DOMAIN tbl[i] |->
                IF c = col THEN preprocess_text(tbl[i][c]) ELSE tbl[i][c]]],
        col)

\* tbl[col] = tbl[col].apply(preprocess_text)
ApplyText(tbl, col) ==
    [i \in DOMAIN tbl |->
        [c \in DOMAIN tbl[i] |->
            IF c = col THEN preprocess_text(tbl[i][c]) ELSE tbl[i][c]]]

\* a preprocess_dataset that returns the table as uploaded
preprocess_dataset_noop(tbl) == tbl

preprocess_dataset(tbl) == ApplyText(ApplyText(tbl, "Company"), "Government entity")

\* a preprocess_dataset that skips a column the table lacks
preprocess_dataset_skips(cols) == FALSE

\* df['Company'] or df['Government entity'] of a table without that column
\* raises KeyError
preprocess_dataset_raises(cols) == ~({"Company", "Government entity"} \subseteq cols)

\* get_potential_matches: extractOne(x, remote_column)[0] for every unmatched
\* text x; subscripting None raises TypeError, which `Fails` tells
PotentialMatchFails(unmatched_series, remote_column) ==
    \E i \in DOMAIN unmatched_series :
        extractOne(unmatched_series[i], remote_column) = None

get_potential_matches(unmatched_series, remote_column) ==
    [i \in DOMAIN unmatched_series |->
        extractOne(unmatched_series[i], remote_column)[1]]

NameColumn(tbl, col) == [i \in DOMAIN tbl |-> tbl[i][col]]

\* lines 107-108 writing the identifier of the suggested entity instead of ''
Unmatched_preaccepted(tbl, matches, col, remote_df, remote_column) ==
    LET labelled == [i \in DOMAIN tbl |-> tbl[i] @@ ("index" :> (i - 1))]
        rows == SelectSeq(labelled,
                       LAMBDA r : r[col] \notin Range(NameColumn(matches, col)))
        suggestion == get_potential_matches(NameColumn(rows, col),
                                            NameColumn(remote_df, remote_column))
        idcol == IF col = "Company" THEN "eiti_id_company" ELSE "eiti_id_government"
    IN  [i \in DOMAIN rows |->
            rows[i] @@ ("Potential_Match" :> suggestion[i])
                    @@ ("EITI ID" :>
                          SelectSeq(remote_df,
                                    LAMBDA r : r[remote_column] = suggestion[i])[1][idcol])]

\* df[~df[col].isin(matches[col])], each row keeping its index label (column
\* "index"), with the columns Potential_Match and EITI ID of lines 104-108
Unmatched(tbl, matches, col, remote_df, remote_column) ==
    LET labelled == [i \in DOMAIN tbl |-> tbl[i] @@ ("index" :> (i - 1))]
        rows == SelectSeq(labelled,
                       LAMBDA r : r[col] \notin Range(NameColumn(matches, col)))
        suggestion == get_potential_matches(NameColumn(rows, col),
                                            NameColumn(remote_df, remote_column))
    IN  [i \in DOMAIN rows |->
            rows[i] @@ ("Potential_Match" :> suggestion[i]) @@ ("EITI ID" :> Empty)]

\* the options of the selectbox of display_unmatched
Options(remote_df, remote_column) ==
    {NoPotentialMatch} \cup Range(NameColumn(remote_df, remote_column))

\* f'eiti_id_{entity_type.split()[0].lower()}'
IdColumn(entity_type) ==
    IF entity_type = "Company" THEN "eiti_id_company" ELSE "eiti_id_government"

\* one row of display_unmatched (lines 40-46) with `choice` the value of its
\* selectbox; the row comes with EITI ID '' (line 107 runs on every rerun)
DisplayRow(row, remote_df, entity_type, remote_column, choice) ==
    [c \in DOMAIN row |->
        IF c = "Potential_Match" THEN choice
        ELSE IF c = "EITI ID"
        THEN IF choice # NoPotentialMatch
             THEN SelectSeq(remote_df,
                         LAMBDA r : r[remote_column] = choice)[1][IdColumn(entity_type)]
             ELSE Empty
        ELSE row[c]]

\* display_unmatched on its first run: every selectbox shows its first option
display_unmatched(unmatched_df, remote_df, entity_type, remote_column) ==
    [i \in DOMAIN unmatched_df |->
        DisplayRow(unmatched_df[i], remote_df, entity_type, remote_column,
                   NoPotentialMatch)]

\* a loop without the test of line 52 / 56
NeedsUuid_untested(row) == TRUE

\* line 52 / 56: if row['EITI ID'] == ''
NeedsUuid(row) == row["EITI ID"] = Empty

\* a loop that draws one identifier before iterating and gives it to every row
MintLoop_hoisted(unmatched_df, n) ==
    [i \in DOMAIN unmatched_df |->
        IF NeedsUuid(unmatched_df[i])
        THEN [c \in DOMAIN unmatched_df[i] |->
                IF c = "EITI ID" THEN generate_uuid(n + 1)
                ELSE unmatched_df[i][c]]
        ELSE unmatched_df[i]]

\* lines 51-53 / 55-57: rows with EITI ID '' get generate_uuid(), in row
\* order; `n` identifiers were drawn before the loop
MintLoop(unmatched_df, n) ==
    LET Before(i) == Cardinality({j \in 1..i : NeedsUuid(unmatched_df[j])})
    IN  [i \in DOMAIN unmatched_df |->
            IF NeedsUuid(unmatched_df[i])
            THEN [c \in DOMAIN unmatched_df[i] |->
                    IF c = "EITI ID" THEN generate_uuid(n + Before(i))
                    ELSE unmatched_df[i][c]]
            ELSE unmatched_df[i]]

Drawn(unmatched_df) ==
    Cardinality({i \in DOMAIN unmatched_df : NeedsUuid(unmatched_df[i])})

\* the uploaded row an output row stems from is kept in column "rec"
WithRec(tbl) == [i \in DOMAIN tbl |-> tbl[i] @@ ("rec" :> i)]

\* validate_matching: the two tables of unmatched rows after minting, whether
\* line 62 or 63 raises, and the table returned
validate_matching(tbl, c_matches, g_matches, u_companies, u_governments, n) ==
    LET uc == MintLoop(u_companies, n)
        ug == MintLoop(u_governments, n + Drawn(u_companies))
        df1 == merge(WithRec(tbl), c_matches, "Company", "Company", "left",
                     {"eiti_id_company"})
        df2 == merge(df1, g_matches, "Government entity", "Government entity",
                     "left", {"eiti_id_government"})
        sc == combine_first(Column(df2, "eiti_id_company"),
                            set_index(uc, "Company", "EITI ID"))
        df3 == AssignColumn(df2, "eiti_id_company", sc)
        sg == combine_first(Column(df3, "eiti_id_government"),
                            set_index(ug, "Government entity", "EITI ID"))
        df4 == AssignColumn(df3, "eiti_id_government", sg)
    IN  [unmatched_companies   |-> uc,
         unmatched_governments |-> ug,
         minted |-> n + Drawn(u_companies) + Drawn(u_governments),
         raises |-> ~CanAssign(sc) \/ ~CanAssign(sg),
         df     |-> df4]

-----------------------------------------------------------------------------
(* The run *)

Tables(cols) ==
    {t \in SeqsUpTo({Restrict(r, cols) : r \in UploadPool}, MaxRecords) : TRUE}

Init ==
    /\ pc = "uploaded"
    /\ columns \in ColumnChoices
    /\ df \in Tables(columns)
    /\ remote \in SeqsUpTo(RemotePool, MaxRemote)
    /\ unique_companies = <<>>
    /\ unique_governments = <<>>
    /\ company_matches = <<>>
    /\ gov_matches = <<>>
    /\ unmatched_companies = <<>>
    /\ unmatched_governments = <<>>
    /\ minted = 0
    /\ out = <<>>
    /\ err = NoError
    /\ arg = <<>>
    /\ res = <<>>

Raise(e) ==
    /\ pc' = "error"
    /\ err' = e

\* lines 79-80: df['Country'].iloc[0], load_remote_dataset
LoadRemote ==
    /\ pc = "uploaded"
    /\ IF "Country" \notin columns
       THEN Raise("KeyError") /\ UNCHANGED <<unique_companies, unique_governments>>
       ELSE IF df = <<>>
       THEN Raise("IndexError") /\ UNCHANGED <<unique_companies, unique_governments>>
       ELSE LET loaded == load_remote_dataset(df[1]["Country"])
            IN  /\ unique_companies' = loaded.unique_companies
                /\ unique_governments' = loaded.unique_governments
                /\ pc' = "loaded"
                /\ err' = err
    /\ UNCHANGED <<arg, res, columns, df, remote, company_matches, gov_matches,
                   unmatched_companies, unmatched_governments, minted, out>>

\* lines 83-85: preprocess_dataset and the two registry name columns
Preprocess ==
    /\ pc = "loaded"
    /\ IF preprocess_dataset_raises(columns)
       THEN Raise("KeyError")
            /\ UNCHANGED <<df, unique_companies, unique_governments>>
       ELSE /\ df' = preprocess_dataset(df)
            /\ unique_companies' = ApplyText(unique_companies, "company_name")
            /\ unique_governments' = ApplyText(unique_governments, "government_entity")
            /\ pc' = "preprocessed"
            /\ err' = err
    /\ UNCHANGED <<arg, res, columns, remote, company_matches, gov_matches,
                   unmatched_companies, unmatched_governments, minted, out>>

\* lines 89-90: the exact matches
ExactMatch ==
    /\ pc = "preprocessed"
    /\ company_matches' = merge(df, unique_companies, "Company", "company_name",
                                "inner", DOMAIN RemoteRow(<<>>, <<>>, "", "", <<>>))
    /\ gov_matches' = merge(df, unique_governments, "Government entity",
                            "government_entity", "inner",
                            DOMAIN RemoteRow(<<>>, <<>>, "", "", <<>>))
    /\ pc' = "matched"
    /\ UNCHANGED <<arg, res, columns, df, remote, unique_companies, unique_governments,
                   unmatched_companies, unmatched_governments, minted, out, err>>

\* lines 101-108: the unmatched rows and their fuzzy suggestion
Suggest ==
    /\ pc = "matched"
    /\ LET uc == SelectSeq(df, LAMBDA r : r["Company"] \notin
                            Range(NameColumn(company_matches, "Company")))
           ug == SelectSeq(df, LAMBDA r : r["Government entity"] \notin
                            Range(NameColumn(gov_matches, "Government entity")))
       IN  IF PotentialMatchFails(NameColumn(uc, "Company"),
                                  NameColumn(unique_companies, "company_name"))
              \/ PotentialMatchFails(NameColumn(ug, "Government entity"),
                                     NameColumn(unique_governments, "government_entity"))
           THEN Raise("TypeError")
                /\ UNCHANGED <<unmatched_companies, unmatched_governments>>
           ELSE /\ unmatched_companies' =
                       Unmatched(df, company_matches, "Company",
                                 unique_companies, "company_name")
                /\ unmatched_governments' =
                       Unmatched(df, gov_matches, "Government entity",
                                 unique_governments, "government_entity")
                /\ pc' = "suggested"
                /\ err' = err
    /\ UNCHANGED <<arg, res, columns, df, remote, unique_companies, unique_governments,
                   company_matches, gov_matches, minted, out>>

\* lines 110-111: display_unmatched, no selection made yet
Display ==
    /\ pc = "suggested"
    /\ unmatched_companies' =
           display_unmatched(unmatched_companies, unique_companies,
                             "Company", "company_name")
    /\ unmatched_governments' =
           display_unmatched(unmatched_governments, unique_governments,
                             "Government entity", "government_entity")
    /\ pc' = "reconcile"
    /\ UNCHANGED <<arg, res, columns, df, remote, unique_companies, unique_governments,
                   company_matches, gov_matches, minted, out, err>>

\* selectboxes sharing one widget key: a choice sets every unmatched company
SelectCompany_sharedkey ==
    /\ pc = "reconcile"
    /\ \E i \in DOMAIN unmatched_companies :
       \E choice \in Options(unique_companies, "company_name") :
          /\ choice # unmatched_companies[i]["Potential_Match"]
          /\ unmatched_companies' =
                [u \in DOMAIN unmatched_companies |->
                    DisplayRow(unmatched_companies[u], unique_companies, "Company",
                               "company_name", choice)]
    /\ UNCHANGED <<arg, res, pc, columns, df, remote, unique_companies, unique_governments,
                   company_matches, gov_matches, unmatched_governments,
                   minted, out, err>>

\* the operator sets the selectbox of one unmatched company (lines 40-46)
SelectCompany ==
    /\ pc = "reconcile"
    /\ \E i \in DOMAIN unmatched_companies :
       \E choice \in Options(unique_companies, "company_name") :
          /\ choice # unmatched_companies[i]["Potential_Match"]
          /\ unmatched_companies' =
                [unmatched_companies EXCEPT
                    ![i] = DisplayRow(@, unique_companies, "Company",
                                      "company_name", choice)]
    /\ UNCHANGED <<arg, res, pc, columns, df, remote, unique_companies, unique_governments,
                   company_matches, gov_matches, unmatched_governments,
                   minted, out, err>>

\* the operator sets the selectbox of one unmatched government entity
SelectGovernment ==
    /\ pc = "reconcile"
    /\ \E i \in DOMAIN unmatched_governments :
       \E choice \in Options(unique_governments, "government_entity") :
          /\ choice # unmatched_governments[i]["Potential_Match"]
          /\ unmatched_governments' =
                [unmatched_governments EXCEPT
                    ![i] = DisplayRow(@, unique_governments, "Government entity",
                                      "government_entity", choice)]
    /\ UNCHANGED <<arg, res, pc, columns, df, remote, unique_companies, unique_governments,
                   company_matches, gov_matches, unmatched_companies,
                   minted, out, err>>

\* lines 115-116: "I am done matching" runs validate_matching
Validate ==
    /\ pc = "reconcile"
    /\ LET v == validate_matching(df, company_matches, gov_matches,
                                  unmatched_companies, unmatched_governments,
                                  minted)
       IN  /\ unmatched_companies' = v.unmatched_companies
           /\ unmatched_governments' = v.unmatched_governments
           /\ minted' = v.minted
           /\ IF v.raises
              THEN Raise("ValueError") /\ out' = out
              ELSE /\ out' = v.df
                   /\ pc' = "done"
                   /\ err' = err
    /\ UNCHANGED <<arg, res, columns, df, remote, unique_companies, unique_governments,
                   company_matches, gov_matches>>

Next ==
    \/ LoadRemote
    \/ Preprocess
    \/ ExactMatch
    \/ Suggest
    \/ Display
    \/ SelectCompany
    \/ SelectGovernment
    \/ Validate

Spec == Init /\ [][Next]_vars

-----------------------------------------------------------------------------
(* preprocess_text applied on its own *)

\* the pipeline is not running
Idle ==
    /\ pc = "idle"
    /\ columns = {} /\ df = <<>> /\ remote = <<>>
    /\ unique_companies = <<>> /\ unique_governments = <<>>
    /\ company_matches = <<>> /\ gov_matches = <<>>
    /\ unmatched_companies = <<>> /\ unmatched_governments = <<>>
    /\ minted = 0 /\ out = <<>> /\ err = NoError

pipeline == <<pc, columns, df, remote, unique_companies, unique_governments,
              company_matches, gov_matches, unmatched_companies,
              unmatched_governments, minted, out, err>>

NormChars == {"e", "E", "é", "É", "ß", "b"}

\* two texts to normalize
InitNorm ==
    /\ Idle
    /\ arg \in SeqsUpTo(NormChars, MaxTextLen) \X SeqsUpTo(NormChars, MaxTextLen)
    /\ res = <<>>

\* preprocess_text applied to the two texts, then to its own results
Normalize ==
    /\ Len(res) < 2
    /\ LET input == IF res = <<>> THEN arg ELSE res[Len(res)]
       IN  res' = Append(res, <<preprocess_text(input[1]), preprocess_text(input[2])>>)
    /\ UNCHANGED <<arg, pipeline>>

NextNorm == Normalize

SpecNorm == InitNorm /\ [][NextNorm]_vars

\* get_potential_matches on its own: one unmatched name and a pool of names
MaxChoices == 2

FuzzyChars == {"A", "B"}

InitFuzzy ==
    /\ Idle
    /\ arg \in SeqsUpTo(FuzzyChars, MaxTextLen)
                 \X SeqsUpTo(SeqsUpTo(FuzzyChars, MaxTextLen), MaxChoices)
    /\ res = <<>>

PotentialMatches ==
    /\ res = <<>>
    /\ LET unmatched_series == <<arg[1]>>
           remote_column == arg[2]
       IN  res' =
             IF PotentialMatchFails(unmatched_series, remote_column)
             THEN <<[raises |-> TRUE, value |-> <<>>]>>
             ELSE <<[raises |-> FALSE,
                     value |-> get_potential_matches(unmatched_series,
                                                     remote_column)]>>
    /\ UNCHANGED <<arg, pipeline>>

NextFuzzy == PotentialMatches

SpecFuzzy == InitFuzzy /\ [][NextFuzzy]_vars

TypeOK ==
    /\ pc \in Stages
    /\ minted \in 0..(2 * MaxRecords)
    /\ (pc = "error") = (err # NoError)

-----------------------------------------------------------------------------
(* Vocabulary of the properties *)

Identified(v) == v # NaN /\ v # Empty

\* the rows of the returned table that stem from uploaded row i
OutRowsOf(i) == {k \in DOMAIN out : out[k]["rec"] = i}

\* the entities of a registry whose name is the text
Named(remote_df, remote_column, text) ==
    SelectSeq(remote_df, LAMBDA r : r[remote_column] = text)

Ids(remote_df, idcol) == {remote_df[i][idcol] : i \in DOMAIN remote_df}

\* the row of a table of unmatched rows that stems from uploaded row i
UnmatchedRowsOf(unmatched_df, i) ==
    {k \in DOMAIN unmatched_df : unmatched_df[k]["index"] = i - 1}

Accepted(row) == row["Potential_Match"] # NoPotentialMatch

Declined(row) == row["Potential_Match"] = NoPotentialMatch

\* whether uploaded row i has an exact match in the registry
ExactCompany(i) == Named(unique_companies, "company_name", df[i]["Company"]) # <<>>

ExactGovernment(i) ==
    Named(unique_governments, "government_entity", df[i]["Government entity"]) # <<>>

MissingColumn == columns # RequiredColumns

-----------------------------------------------------------------------------
(* Properties *)

\* C1: after the full pipeline every uploaded record has its rows in the
\* returned table, and both identifier fields of every row are non-empty.
C1_EveryIdentifierSet ==
    pc = "done" =>
        \A i \in DOMAIN df :
            /\ OutRowsOf(i) # {}
            /\ \A k \in OutRowsOf(i) :
                  /\ Identified(out[k]["eiti_id_company"])
                  /\ Identified(out[k]["eiti_id_government"])

\* C2: a record whose normalized name equals the name of a registry entity
\* ends with the identifier of the matched entity (the first entity of that
\* name in registry order) in every row of the returned table, and is not in
\* the table of unmatched rows, where suggestions and minted identifiers live.
C2_ExactMatchPrecedence ==
    pc = "done" =>
        \A i \in DOMAIN df :
            /\ ExactCompany(i) =>
                  /\ UnmatchedRowsOf(unmatched_companies, i) = {}
                  /\ \A k \in OutRowsOf(i) :
                        out[k]["eiti_id_company"] =
                            Named(unique_companies, "company_name",
                                  df[i]["Company"])[1]["eiti_id_company"]
            /\ ExactGovernment(i) =>
                  /\ UnmatchedRowsOf(unmatched_governments, i) = {}
                  /\ \A k \in OutRowsOf(i) :
                        out[k]["eiti_id_government"] =
                            Named(unique_governments, "government_entity",
                                  df[i]["Government entity"])[1]["eiti_id_government"]

\* C3: an unmatched record for which the operator accepted a registry entity
\* ends with the identifier of an entity of the accepted name.
C3_AcceptedIdentifier ==
    pc = "done" =>
        /\ \A u \in DOMAIN unmatched_companies :
              Accepted(unmatched_companies[u]) =>
                \A k \in OutRowsOf(unmatched_companies[u]["index"] + 1) :
                    \E e \in Range(Named(unique_companies, "company_name",
                                         unmatched_companies[u]["Potential_Match"])) :
                        out[k]["eiti_id_company"] = e["eiti_id_company"]
        /\ \A u \in DOMAIN unmatched_governments :
              Accepted(unmatched_governments[u]) =>
                \A k \in OutRowsOf(unmatched_governments[u]["index"] + 1) :
                    \E e \in Range(Named(unique_governments, "government_entity",
                                         unmatched_governments[u]["Potential_Match"])) :
                        out[k]["eiti_id_government"] = e["eiti_id_government"]

\* C4: an unmatched record the operator declined ends with the identifier
\* minted for it, which is no identifier of the registry.
C4_DeclinedIsMinted ==
    pc = "done" =>
        /\ \A u \in DOMAIN unmatched_companies :
              Declined(unmatched_companies[u]) =>
                \A k \in OutRowsOf(unmatched_companies[u]["index"] + 1) :
                    /\ Identified(out[k]["eiti_id_company"])
                    /\ out[k]["eiti_id_company"] = unmatched_companies[u]["EITI ID"]
                    /\ out[k]["eiti_id_company"] \notin Ids(remote, "eiti_id_company")
        /\ \A u \in DOMAIN unmatched_governments :
              Declined(unmatched_governments[u]) =>
                \A k \in OutRowsOf(unmatched_governments[u]["index"] + 1) :
                    /\ Identified(out[k]["eiti_id_government"])
                    /\ out[k]["eiti_id_government"] = unmatched_governments[u]["EITI ID"]
                    /\ out[k]["eiti_id_government"] \notin Ids(remote, "eiti_id_government")

\* the minting loop leaves a row with an identifier as it is, and changes
\* nothing but the EITI ID of a row without one
KeptOrMinted(before, after) ==
    /\ Len(after) = Len(before)
    /\ \A u \in DOMAIN before :
          IF before[u]["EITI ID"] # Empty
          THEN after[u] = before[u]
          ELSE /\ Identified(after[u]["EITI ID"])
               /\ \A c \in DOMAIN before[u] \ {"EITI ID"} : after[u][c] = before[u][c]

MintedIds ==
    [t \in {"Company", "Government entity"} |->
        LET tbl == IF t = "Company" THEN unmatched_companies
                   ELSE unmatched_governments
        IN  [u \in {v \in DOMAIN tbl : Declined(tbl[v]) /\ tbl[v]["EITI ID"] # Empty}
                |-> tbl[u]["EITI ID"]]]

\* C6: no two distinct unresolved records, of either entity type, receive
\* the same minted identifier.
C6_MintedDistinct ==
    \A t1, t2 \in DOMAIN MintedIds :
        \A u1 \in DOMAIN MintedIds[t1], u2 \in DOMAIN MintedIds[t2] :
            (MintedIds[t1][u1] = MintedIds[t2][u2]) => (t1 = t2 /\ u1 = u2)

\* C6 witness: the run is over and identifiers were minted for two companies
\* and one government entity
C6_Witness ==
    /\ pc = "done"
    /\ Cardinality(DOMAIN MintedIds["Company"]) >= 2
    /\ Cardinality(DOMAIN MintedIds["Government entity"]) >= 1

\* C7: a record whose name is the name of several registry entities with
\* distinct identifiers ends with one identifier, that of the first of them.
C7_FirstOfSeveral ==
    pc = "done" =>
        \A i \in DOMAIN df :
            LET named == Named(unique_companies, "company_name", df[i]["Company"])
            IN  Cardinality(Ids(named, "eiti_id_company")) > 1 =>
                    \A k \in OutRowsOf(i) :
                        out[k]["eiti_id_company"] = named[1]["eiti_id_company"]

\* C8: with an empty registry and an unmatched record, the fuzzy matching
\* does not fail: the run never ends in the TypeError of get_potential_matches.
C8_NoCandidateNoFailure ==
    ~(/\ pc = "error"
      /\ err = "TypeError"
      /\ \/ unique_companies = <<>>
         \/ unique_governments = <<>>)

\* C9: when the uploaded table lacks a required column, the run never gets
\* to the exact matching, computes no match, no unmatched table and no
\* resolved table, and it can only stop in an error (KeyError; IndexError
\* when the table has the Country column and no row).
C9_MissingFieldIsFatal ==
    MissingColumn =>
        /\ pc \in {"uploaded", "loaded", "error"}
        /\ company_matches = <<>> /\ gov_matches = <<>>
        /\ unmatched_companies = <<>> /\ unmatched_governments = <<>>
        /\ out = <<>>
        /\ pc # "error" => ENABLED Next
        /\ pc = "error" =>
              err = IF "Country" \in columns /\ df = <<>> THEN "IndexError"
                    ELSE "KeyError"

\* C9 witness: a run on a table without the Company column has ended in
\* KeyError, after the registry was loaded
C9_Witness ==
    /\ "Company" \notin columns
    /\ df # <<>>
    /\ pc = "error"
    /\ err = "KeyError"

\* C10: validate_matching never returns a table in which a record lacks an
\* identifier: a step that ends the reconciliation with a returned table
\* returns one whose rows all have both identifiers.
C10_MergerRejectsMissing ==
    [][ (pc = "reconcile" /\ pc' = "done") =>
          \A k \in DOMAIN out' :
              /\ out'[k]["eiti_id_company"] # NaN
              /\ out'[k]["eiti_id_government"] # NaN
      ]_vars

\* whether uploaded row i carries an identifier before minting: one attached
\* by the exact match, or one in its row of the table of unmatched rows
HasIdentifier(i, matches, unmatched_df, col) ==
    \/ \E m \in DOMAIN matches : matches[m][col] = df[i][col]
    \/ \E u \in UnmatchedRowsOf(unmatched_df, i) : unmatched_df[u]["EITI ID"] # Empty

\* whether the operator chose a registry entity for uploaded row i: the
\* selectboxes exist from display_unmatched on
OperatorChose(i, unmatched_df) ==
    /\ pc = "reconcile"
    /\ \E u \in UnmatchedRowsOf(unmatched_df, i) : Accepted(unmatched_df[u])

\* C11: before minting, a record carries an identifier for an entity type if
\* and only if it was exactly matched or the operator chose a registry
\* entity for it; a fuzzy suggestion alone gives none, nor does declining.
C11_ResolvedIffMatchedOrChosen ==
    pc \in {"suggested", "reconcile"} =>
        \A i \in DOMAIN df :
            /\ HasIdentifier(i, company_matches, unmatched_companies, "Company")
                  <=> (ExactCompany(i) \/ OperatorChose(i, unmatched_companies))
            /\ HasIdentifier(i, gov_matches, unmatched_governments, "Government entity")
                  <=> (ExactGovernment(i) \/ OperatorChose(i, unmatched_governments))

\* C11 witness: the suggestions are attached, no selectbox was shown yet, and
\* a record with a suggested company has no company identifier
C11_Witness ==
    /\ pc = "suggested"
    /\ \E u \in DOMAIN unmatched_companies :
          /\ unmatched_companies[u]["Potential_Match"]
                \in Range(NameColumn(unique_companies, "company_name"))
          /\ unmatched_companies[u]["EITI ID"] = Empty

\* the rows of a table of unmatched rows that a step changed
ChangedRows(before_df, after_df) ==
    {u \in DOMAIN before_df : after_df[u] # before_df[u]}

\* the identifier of every unmatched row is decided by the selection of that
\* row alone: the first entity of the selected name, or none
DecidedByOwnSelection(unmatched_df, remote_df, remote_column, idcol) ==
    \A u \in DOMAIN unmatched_df :
        unmatched_df[u]["EITI ID"] =
            IF Accepted(unmatched_df[u])
            THEN Named(remote_df, remote_column,
                       unmatched_df[u]["Potential_Match"])[1][idcol]
            ELSE Empty

\* C12: a decision changes the selection and identifier of one unmatched row
\* and nothing else, and after any sequence of decisions the identifier of
\* each row is the one of its own current selection: the order in which the
\* decisions arrive does not matter.
C12_DecisionsInAnyOrder ==
    [][ (pc = "reconcile" /\ pc' = "reconcile") =>
          /\ Len(unmatched_companies') = Len(unmatched_companies)
          /\ Len(unmatched_governments') = Len(unmatched_governments)
          /\ Cardinality(ChangedRows(unmatched_companies, unmatched_companies'))
               + Cardinality(ChangedRows(unmatched_governments, unmatched_governments'))
               = 1
          /\ DecidedByOwnSelection(unmatched_companies', unique_companies',
                                   "company_name", "eiti_id_company")
          /\ DecidedByOwnSelection(unmatched_governments', unique_governments',
                                   "government_entity", "eiti_id_government")
          /\ UNCHANGED <<df, company_matches, gov_matches, minted, out>>
      ]_vars

\* C12 witness: the operator accepted entities for two unmatched companies and
\* for a government entity, a third decision having followed two others
C12_Witness ==
    /\ pc = "reconcile"
    /\ \E u, v \in DOMAIN unmatched_companies :
          /\ u # v
          /\ Accepted(unmatched_companies[u])
          /\ Accepted(unmatched_companies[v])
    /\ \E w \in DOMAIN unmatched_governments : Accepted(unmatched_governments[w])

\* the entities of a registry table: its rows without the name columns,
\* which line 84-85 normalize
Entities(remote_df) ==
    [k \in DOMAIN remote_df |->
        [c \in {"eiti_id_company", "eiti_id_government", "country"} |->
            remote_df[k][c]]]

MintedSoFar == {generate_uuid(n) : n \in 1..minted}

\* C13: the registry is read-only: the remote table never changes, once
\* loaded the registry tables keep their entities and identifiers through
\* every stage, and no minted identifier is an identifier of a registry table.
C13_RegistryReadOnly ==
    [][ /\ remote' = remote
        /\ pc # "uploaded" =>
              /\ Entities(unique_companies') = Entities(unique_companies)
              /\ Entities(unique_governments') = Entities(unique_governments)
        /\ (MintedSoFar')
              \cap (Ids(unique_companies', "eiti_id_company")
                    \cup Ids(unique_companies', "eiti_id_government")
                    \cup Ids(unique_governments', "eiti_id_company")
                    \cup Ids(unique_governments', "eiti_id_government")
                    \cup Ids(remote', "eiti_id_company")
                    \cup Ids(remote', "eiti_id_government")) = {}
      ]_vars

\* C13 witness: a run that minted identifiers has returned its table, the
\* registry holding two entities
C13_Witness ==
    /\ pc = "done"
    /\ minted > 0
    /\ Len(unique_companies) = 2
    /\ Len(unique_governments) >= 1

\* letters that differ in case or accent only
LetterVariants == {{"e", "E", "é", "É"}, {"b", "B"}}

\* texts that differ in case or accents only
Variants(x, y) ==
    /\ Len(x) = Len(y)
    /\ \A i \in DOMAIN x :
          x[i] = y[i] \/ \E V \in LetterVariants : x[i] \in V /\ y[i] \in V

\* C14: normalizing a normalized text changes nothing, and two texts that
\* differ only in case or accents have the same normalized text.
C14_NormalizeIdempotent ==
    /\ Len(res) = 2 => res[2] = res[1]
    /\ (Len(res) >= 1 /\ Variants(arg[1], arg[2])) => res[1][1] = res[1][2]

\* C14 witness: two different texts with an accented letter, variants of each
\* other, were normalized twice, the first application having changed them
C14_Witness ==
    /\ Len(res) = 2
    /\ arg[1] # arg[2]
    /\ Variants(arg[1], arg[2])
    /\ \E i \in DOMAIN arg[1] : arg[1][i] = "é"
    /\ res[1][1] # arg[1]
    /\ res[1][2] # arg[2]

\* every text of the column is its own normalization
Normalized(tbl, col) ==
    \A i \in DOMAIN tbl : preprocess_text(tbl[i][col]) = tbl[i][col]

\* the order of the stages of main()
StageOrder ==
    {<<"uploaded", "loaded">>, <<"loaded", "preprocessed">>,
     <<"preprocessed", "matched">>, <<"matched", "suggested">>,
     <<"suggested", "reconcile">>, <<"reconcile", "done">>}
    \cup {<<s, "error">> : s \in Stages \ {"done", "error"}}

\* what the stages have produced, stage by stage
StagesInOrder ==
    /\ (pc \in {"matched", "suggested", "reconcile", "done"}
          \/ company_matches # <<>> \/ gov_matches # <<>>
          \/ unmatched_companies # <<>> \/ unmatched_governments # <<>>) =>
          /\ Normalized(df, "Company")
          /\ Normalized(df, "Government entity")
          /\ Normalized(unique_companies, "company_name")
          /\ Normalized(unique_governments, "government_entity")
    /\ pc \in {"uploaded", "loaded", "preprocessed"} =>
          company_matches = <<>> /\ gov_matches = <<>>
    /\ pc \in {"uploaded", "loaded", "preprocessed", "matched"} =>
          unmatched_companies = <<>> /\ unmatched_governments = <<>>
    /\ \A u \in DOMAIN unmatched_companies :
          ~ExactCompany(unmatched_companies[u]["index"] + 1)
    /\ \A u \in DOMAIN unmatched_governments :
          ~ExactGovernment(unmatched_governments[u]["index"] + 1)
    /\ minted > 0 => (pc = "done" \/ (pc = "error" /\ err = "ValueError"))
    /\ out # <<>> =>
          /\ pc = "done"
          /\ \A u \in DOMAIN unmatched_companies :
                unmatched_companies[u]["EITI ID"] # Empty
          /\ \A u \in DOMAIN unmatched_governments :
                unmatched_governments[u]["EITI ID"] # Empty

\* C15: the stages run in the order normalize, exact match, fuzzy
\* suggestion, reconciliation, minting, merge: both sides are normalized
\* before any comparison, only records without exact match get a
\* suggestion, nothing is minted before the operator is done, and the
\* returned table exists only once minting has run.
C15_StagesInOrder ==
    /\ []StagesInOrder
    /\ [][ /\ pc' # pc => <<pc, pc'>> \in StageOrder
           /\ minted' # minted => pc = "reconcile"
           /\ out' # out => pc = "reconcile"
       ]_vars

\* C15 witness: a run went through all stages: it found an exact match,
\* left a government entity unmatched, minted and returned its table
C15_Witness ==
    /\ pc = "done"
    /\ company_matches # <<>>
    /\ unmatched_governments # <<>>
    /\ minted > 0
    /\ out # <<>>

\* C16: for a non-empty pool get_potential_matches returns one candidate of
\* the pool for the unmatched name; its score is the maximum over the pool,
\* it is the first of the pool with that score, and it is returned whatever
\* that score is, a score of 0 included.
C16_FirstBestNoThreshold ==
    (res # <<>> /\ arg[2] # <<>>) =>
        /\ ~res[1].raises
        /\ Len(res[1].value) = 1
        /\ \E i \in DOMAIN arg[2] :
              /\ res[1].value[1] = arg[2][i]
              /\ \A j \in DOMAIN arg[2] :
                    ratio(arg[1], arg[2][j]) <= ratio(arg[1], arg[2][i])
              /\ \A j \in 1..(i - 1) :
                    ratio(arg[1], arg[2][j]) < ratio(arg[1], arg[2][i])

\* C16 witness: two different candidates both score 0 against the name and
\* the first of them has been returned
C16_Witness ==
    /\ res # <<>>
    /\ Len(arg[2]) = 2
    /\ arg[2][1] # arg[2][2]
    /\ arg[1] # <<>>
    /\ ratio(arg[1], arg[2][1]) = 0
    /\ ratio(arg[1], arg[2][2]) = 0
    /\ ~res[1].raises
    /\ res[1].value = <<arg[2][1]>>

\* C17: the returned table has exactly one row per uploaded record, none
\* dropped and none duplicated, also when records share a name or a name is
\* that of several registry entities.
C17_OneRowPerRecord ==
    pc = "done" =>
        /\ Len(out) = Len(df)
        /\ \A i \in DOMAIN df : Cardinality(OutRowsOf(i)) = 1

\* the identifiers uploaded row i carries in the returned table
OutIds(i, idcol) == {out[k][idcol] : k \in OutRowsOf(i)}

\* uploaded rows i and j are both unmatched and got the same selection
SameDecision(unmatched_df, i, j) ==
    /\ UnmatchedRowsOf(unmatched_df, i) # {}
    /\ UnmatchedRowsOf(unmatched_df, j) # {}
    /\ \A u \in UnmatchedRowsOf(unmatched_df, i) :
          \A v \in UnmatchedRowsOf(unmatched_df, j) :
              unmatched_df[u]["Potential_Match"] = unmatched_df[v]["Potential_Match"]

\* uploaded rows i and j have the same name and the same decision
SameCompanyDecision(i, j) ==
    /\ df[i]["Company"] = df[j]["Company"]
    /\ \/ ExactCompany(i)
       \/ SameDecision(unmatched_companies, i, j)

SameGovernmentDecision(i, j) ==
    /\ df[i]["Government entity"] = df[j]["Government entity"]
    /\ \/ ExactGovernment(i)
       \/ SameDecision(unmatched_governments, i, j)

\* whenever two uploaded rows share a name they also share the decision
DecidedAlike ==
    \A i \in DOMAIN df : \A j \in DOMAIN df \ {i} :
        /\ df[i]["Company"] = df[j]["Company"] => SameCompanyDecision(i, j)
        /\ df[i]["Government entity"] = df[j]["Government entity"] =>
              SameGovernmentDecision(i, j)

\* the same identifiers for rows i and j, in the returned table and in the
\* table of unmatched rows
SameIdentifiers(unmatched_df, idcol, i, j) ==
    /\ OutIds(i, idcol) = OutIds(j, idcol)
    /\ \A u \in UnmatchedRowsOf(unmatched_df, i) :
          \A v \in UnmatchedRowsOf(unmatched_df, j) :
              unmatched_df[u]["EITI ID"] = unmatched_df[v]["EITI ID"]

\* C18: when the records of equal normalized name got the same decision
\* (both exactly matched, both declined, both accepting the same entity),
\* validate_matching completes without failure and such records end with the
\* same identifier for that entity type.
C18_EqualNamesEqualIdentifiers ==
    ((pc = "done" \/ (pc = "error" /\ err = "ValueError")) /\ DecidedAlike) =>
        /\ pc = "done"
        /\ \A i \in DOMAIN df : \A j \in DOMAIN df \ {i} :
              /\ SameCompanyDecision(i, j) =>
                    SameIdentifiers(unmatched_companies, "eiti_id_company", i, j)
              /\ SameGovernmentDecision(i, j) =>
                    SameIdentifiers(unmatched_governments, "eiti_id_government", i, j)

\* every entity of the registry table is of the country of the row
OwnCountry(remote_df, row) ==
    \A r \in DOMAIN remote_df :
        upper(remote_df[r]["country"]) = upper(row["Country"])

\* C19: every record is matched against registry entities of its own country
\* only: each exact match pairs a record with an entity of the record's
\* country, and the pool a record's suggestion is drawn from holds entities
\* of the record's country only, also when the upload has several countries.
C19_OwnCountryOnly ==
    /\ \A m \in DOMAIN company_matches :
          upper(company_matches[m]["country"]) = upper(company_matches[m]["Country"])
    /\ \A m \in DOMAIN gov_matches :
          upper(gov_matches[m]["country"]) = upper(gov_matches[m]["Country"])
    /\ \A u \in DOMAIN unmatched_companies :
          OwnCountry(unique_companies, unmatched_companies[u])
    /\ \A u \in DOMAIN unmatched_governments :
          OwnCountry(unique_governments, unmatched_governments[u])

====
